---- MODULE Spec2Model ----
(***************************************************************************)
(* Model of bigcommerce-oauth-next: the InstallController that adapts a    *)
(* BigCommerce OAuth callback request into one call of the installation    *)
(* use case and one redirect response.                                     *)
(*                                                                         *)
(* Strings are sequences of atoms.  An atom is either one reserved         *)
(* character (" ", "/", "+", "%", "&", "=", "?", ",") or a run of          *)
(* unreserved characters ("s", "success", "missing_params", "2F", ...).    *)
(* A JavaScript value that may be null/undefined is a sequence of length   *)
(* 0 (absent) or 1 (present).                                              *)
(***************************************************************************)
EXTENDS Integers, Sequences, FiniteSets, TLC

VARIABLES config, controller, request, pc, params, executeCalls,
          executeResult, caught, logged, outcome, baseUrl, targetPath,
          response, thrown,
          inflight, cli, fs, copy, view

vars == <<config, controller, request, pc, params, executeCalls,
          executeResult, caught, logged, outcome, baseUrl, targetPath,
          response, thrown, inflight, cli, fs, copy, view>>

\* the state of the parts of the program that a specification leaves alone
outsideController == <<inflight, cli, fs, copy, view>>

Unused == [pc |-> "unused"]

\* ------------------------------------------------------------------------
\* Bounds of the model
\* ------------------------------------------------------------------------
MaxLen == 2

\* ------------------------------------------------------------------------
\* JavaScript values
\* ------------------------------------------------------------------------
Null == <<>>

Some(v) == <<v>>

\* a ?? d
Coalesce(x, d) == IF x = Null THEN d ELSE x[1]

\* truthiness of an optional string: undefined and "" are falsy
Truthy(x) == x # Null /\ x[1] # <<>>

SeqsUpTo(S, n) == UNION {[1..k -> S] : k \in 0..n}

\* ------------------------------------------------------------------------
\* application/x-www-form-urlencoded, as URLSearchParams implements it
\* ------------------------------------------------------------------------
HexPairs == {"20", "2F", "2B", "25", "26", "3D", "2C", "3F"}

\* the serializer's byte encoding: space becomes "+", every other reserved
\* character becomes "%" followed by its two hex digits
EncodeChar(c) ==
  CASE c = " " -> <<"+">>
    [] c = "/" -> <<"%", "2F">>
    [] c = "+" -> <<"%", "2B">>
    [] c = "%" -> <<"%", "25">>
    [] c = "&" -> <<"%", "26">>
    [] c = "=" -> <<"%", "3D">>
    [] c = "," -> <<"%", "2C">>
    [] c = "?" -> <<"%", "3F">>
    [] OTHER -> <<c>>

HexDecode(h) ==
  CASE h = "20" -> " "
    [] h = "2F" -> "/"
    [] h = "2B" -> "+"
    [] h = "25" -> "%"
    [] h = "26" -> "&"
    [] h = "3D" -> "="
    [] h = "2C" -> ","
    [] h = "3F" -> "?"

RECURSIVE FormEncode(_)
FormEncode(s) ==
  IF s = <<>> THEN <<>> ELSE EncodeChar(Head(s)) \o FormEncode(Tail(s))

\* the parser's decoding: "+" is a space, "%" followed by two hex digits is
\* the encoded character, a "%" not followed by two hex digits stays as it is
RECURSIVE FormDecode(_)
FormDecode(s) ==
  IF s = <<>> THEN <<>>
  ELSE IF s[1] = "+" THEN <<" ">> \o FormDecode(Tail(s))
  ELSE IF s[1] = "%" /\ Len(s) >= 2 /\ s[2] \in HexPairs
       THEN <<HexDecode(s[2])>> \o FormDecode(SubSeq(s, 3, Len(s)))
  ELSE <<s[1]>> \o FormDecode(Tail(s))

\* new URLSearchParams(init).toString()
RECURSIVE SearchToString(_)
SearchToString(pairs) ==
  IF pairs = <<>> THEN <<>>
  ELSE LET p == Head(pairs)
           one == FormEncode(p.name) \o <<"=">> \o FormEncode(p.value)
       IN IF Len(pairs) = 1 THEN one
          ELSE one \o <<"&">> \o SearchToString(Tail(pairs))

\* first index of atom c in s, 0 when it does not occur
RECURSIVE IndexOf(_, _)
IndexOf(s, c) ==
  IF s = <<>> THEN 0
  ELSE IF Head(s) = c THEN 1
  ELSE LET i == IndexOf(Tail(s), c) IN IF i = 0 THEN 0 ELSE i + 1

ParsePair(seg) ==
  LET i == IndexOf(seg, "=")
  IN IF i = 0
     THEN [name |-> FormDecode(seg), value |-> <<>>]
     ELSE [name |-> FormDecode(SubSeq(seg, 1, i - 1)),
           value |-> FormDecode(SubSeq(seg, i + 1, Len(seg)))]

\* url.searchParams of a URL whose query string is s: split on "&", skip
\* empty segments, split each at its first "=", decode name and value
RECURSIVE ParseQuery(_)
ParseQuery(s) ==
  IF s = <<>> THEN <<>>
  ELSE LET i == IndexOf(s, "&")
           seg == IF i = 0 THEN s ELSE SubSeq(s, 1, i - 1)
           rest == IF i = 0 THEN <<>> ELSE SubSeq(s, i + 1, Len(s))
       IN (IF seg = <<>> THEN <<>> ELSE <<ParsePair(seg)>>) \o ParseQuery(rest)

\* searchParams.get(name): the first value of that name, or null
RECURSIVE SearchParamsGet(_, _)
SearchParamsGet(pairs, name) ==
  IF pairs = <<>> THEN Null
  ELSE IF Head(pairs).name = name THEN Some(Head(pairs).value)
  ELSE SearchParamsGet(Tail(pairs), name)

\* ------------------------------------------------------------------------
\* new URL(relative, base) for a base of the form <protocol>://<host>
\* ------------------------------------------------------------------------
SchemeForbidden == {" ", ",", "/", "%", "&", "=", "?"}

HostForbidden == {" ", "/", "%", "?"}

HasAtomIn(s, F) == \E i \in 1..Len(s) : s[i] \in F

\* The URL parser rejects a base whose scheme is empty or holds a character
\* that no scheme may hold, and a base whose host is empty or holds a
\* forbidden host code point.
ParseBase(base) ==
  LET i == IndexOf(base, "://")
      scheme == SubSeq(base, 1, i - 1)
      host == SubSeq(base, i + 1, Len(base))
  IN IF i = 0 \/ scheme = <<>> \/ HasAtomIn(scheme, SchemeForbidden)
        \/ host = <<>> \/ HasAtomIn(host, HostForbidden)
     THEN [ok |-> FALSE]
     ELSE [ok |-> TRUE, origin |-> scheme \o <<"://">> \o host]

\* relative is <path>?<query>; the result keeps the base's origin
NewURL(relative, base) ==
  LET b == ParseBase(base)
      q == IndexOf(relative, "?")
  IN IF ~b.ok THEN [ok |-> FALSE]
     ELSE [ok |-> TRUE,
           origin |-> b.origin,
           pathname |-> IF q = 0 THEN relative ELSE SubSeq(relative, 1, q - 1),
           search |-> IF q = 0 THEN <<>> ELSE SubSeq(relative, q + 1, Len(relative))]

\* ------------------------------------------------------------------------
\* Inputs
\* ------------------------------------------------------------------------
Chars == {"s", "/", " ", "+", "%", "&"}

DefaultPath == <<"/auth/result">>

RedirectUris == {<<"https://my-app.example.com/callback">>}

Configs ==
  [installApp : {"installApp"},
   redirectUri : RedirectUris,
   successPath : {Null, Some(<<"/custom/success">>)},
   errorPath : {Null, Some(<<"/custom/error">>)}]

CodeValues == {Null, Some(<<>>), Some(<<"abc123">>)}

ContextValues == {Null} \cup {Some(s) : s \in SeqsUpTo(Chars, MaxLen)}

ScopeValues == {Null, Some(<<"store_v2_products">>)}

ForwardedHostValues == {Null, Some(<<>>), Some(<<"public.example.com">>)}

HostValues == {Null, Some(<<"shop.example.com">>)}

ForwardedProtoValues == {Null, Some(<<"https">>), Some(<<"https", ",", "http">>)}

HeaderNames == {"x-forwarded-host", "host", "x-forwarded-proto"}

\* the query string of a callback URL that carries the given parameters
QueryString(c, x, s) ==
  SearchToString(
    (IF c = Null THEN <<>> ELSE << [name |-> <<"code">>, value |-> c[1]] >>)
    \o (IF x = Null THEN <<>> ELSE << [name |-> <<"context">>, value |-> x[1]] >>)
    \o (IF s = Null THEN <<>> ELSE << [name |-> <<"scope">>, value |-> s[1]] >>))

\* a request with the given query parameters and header values
MakeRequest(c, x, s, fh, hh, fp) ==
  [url |-> [search |-> QueryString(c, x, s)],
   headers |-> [h \in HeaderNames |->
                  CASE h = "x-forwarded-host" -> fh
                    [] h = "host" -> hh
                    [] h = "x-forwarded-proto" -> fp]]

Requests ==
  {MakeRequest(c, x, s, fh, hh, fp) :
     c \in CodeValues, x \in ContextValues, s \in ScopeValues,
     fh \in ForwardedHostValues, hh \in HostValues, fp \in ForwardedProtoValues}

\* what installApp.execute may reject with
ThrownErrors ==
  {[class |-> "BigCommerceTokenExchangeError", message |-> "boom"],
   [class |-> "MissingOAuthParamsError", message |-> "Missing OAuth parameters"],
   [class |-> "Error", message |-> "boom"],
   [class |-> "Error", message |-> "secret"]}

MissingOAuthParamsError ==
  [class |-> "MissingOAuthParamsError",
   message |-> "Missing OAuth parameters"]

InvalidURLError == [class |-> "TypeError", message |-> "Invalid URL"]

\* ------------------------------------------------------------------------
\* InstallController
\* ------------------------------------------------------------------------
\* variant: an omitted errorPath falls back to the configured successPath
Construct_SharedDefault(cfg) ==
  [installApp |-> cfg.installApp,
   redirectUri |-> cfg.redirectUri,
   successPath |-> Coalesce(cfg.successPath, DefaultPath),
   errorPath |-> Coalesce(cfg.errorPath, Coalesce(cfg.successPath, DefaultPath))]

Construct(cfg) ==
  [installApp |-> cfg.installApp,
   redirectUri |-> cfg.redirectUri,
   successPath |-> Coalesce(cfg.successPath, DefaultPath),
   errorPath |-> Coalesce(cfg.errorPath, DefaultPath)]

\* req.headers.get(name)
HeadersGet(req, name) == req.headers[name]

\* new URL(req.url).searchParams.get(name)
QueryGet(req, name) == SearchParamsGet(ParseQuery(req.url.search), name)

\* variant: scope is passed on as searchParams.get returned it, without "?? ''"
getOAuthParams_NoScopeDefault(req) ==
  LET code == Coalesce(QueryGet(req, <<"code">>), <<>>)
      context == Coalesce(QueryGet(req, <<"context">>), <<>>)
      scope == Coalesce(QueryGet(req, <<"scope">>), <<"null">>)
  IN IF code = <<>> \/ context = <<>>
     THEN [threw |-> TRUE, err |-> MissingOAuthParamsError]
     ELSE [threw |-> FALSE,
           value |-> [code |-> code, context |-> context, scope |-> scope]]

getOAuthParams(req) ==
  LET code == Coalesce(QueryGet(req, <<"code">>), <<>>)
      context == Coalesce(QueryGet(req, <<"context">>), <<>>)
      scope == Coalesce(QueryGet(req, <<"scope">>), <<>>)
  IN IF code = <<>> \/ context = <<>>
     THEN [threw |-> TRUE, err |-> MissingOAuthParamsError]
     ELSE [threw |-> FALSE,
           value |-> [code |-> code, context |-> context, scope |-> scope]]

ExecuteArgs(ctl, p) ==
  [code |-> p.code, context |-> p.context, scope |-> p.scope,
   redirectUri |-> ctl.redirectUri]

\* variant: an unclassified error is reported by its message
mapErrorToCode_Message(err) ==
  IF err.class = "MissingOAuthParamsError" THEN <<"missing_params">>
  ELSE IF err.class = "BigCommerceTokenExchangeError" THEN <<"token_exchange_failed">>
  ELSE <<err.message>>

mapErrorToCode(err) ==
  IF err.class = "MissingOAuthParamsError" THEN <<"missing_params">>
  ELSE IF err.class = "BigCommerceTokenExchangeError" THEN <<"token_exchange_failed">>
  ELSE <<"unknown">>

\* variant: the host header is preferred over x-forwarded-host
getBaseUrl_HostFirst(req) ==
  LET host == Coalesce(HeadersGet(req, "host"),
                       Coalesce(HeadersGet(req, "x-forwarded-host"), <<"localhost:3000">>))
      protocol == Coalesce(HeadersGet(req, "x-forwarded-proto"), <<"http">>)
  IN protocol \o <<"://">> \o host

getBaseUrl(req) ==
  LET host == Coalesce(HeadersGet(req, "x-forwarded-host"),
                       Coalesce(HeadersGet(req, "host"), <<"localhost:3000">>))
      protocol == Coalesce(HeadersGet(req, "x-forwarded-proto"), <<"http">>)
  IN protocol \o <<"://">> \o host

TargetPath(ctl, out) ==
  IF out.status = <<"success">> THEN ctl.successPath ELSE ctl.errorPath

\* variant: context and code are always put into the query, present or not
SearchInit_Unguarded(out) ==
  << [name |-> <<"status">>, value |-> out.status],
     [name |-> <<"context">>, value |-> Coalesce(out.context, <<"undefined">>)],
     [name |-> <<"code">>, value |-> Coalesce(out.errorCode, <<"undefined">>)] >>

\* the object handed to new URLSearchParams
SearchInit(out) ==
  << [name |-> <<"status">>, value |-> out.status] >>
  \o (IF Truthy(out.context)
      THEN << [name |-> <<"context">>, value |-> out.context[1]] >> ELSE <<>>)
  \o (IF Truthy(out.errorCode)
      THEN << [name |-> <<"code">>, value |-> out.errorCode[1]] >> ELSE <<>>)

\* new URL(targetPath + "?" + search.toString(), baseUrl)
RedirectURL(ctl, req, out) ==
  NewURL(TargetPath(ctl, out) \o <<"?">> \o SearchToString(SearchInit(out)),
         getBaseUrl(req))

\* ------------------------------------------------------------------------
\* State machine of one request
\* ------------------------------------------------------------------------
Init ==
  /\ config \in Configs
  /\ controller = Construct(config)
  /\ request \in Requests
  /\ pc = "Start"
  /\ params = Null
  /\ executeCalls = <<>>
  /\ executeResult = Null
  /\ caught = Null
  /\ logged = <<>>
  /\ outcome = Null
  /\ baseUrl = Null
  /\ targetPath = Null
  /\ response = Null
  /\ thrown = Null
  /\ inflight = <<>>
  /\ cli = Unused
  /\ fs = Unused
  /\ copy = Unused
  /\ view = Unused

\* the catch block of performInstall
Catch(err) ==
  /\ caught' = Some(err)
  /\ logged' = Append(logged, err)
  /\ outcome' = Some([status |-> <<"error">>, context |-> Null,
                      errorCode |-> Some(mapErrorToCode(err))])
  /\ pc' = "Failure"

\* performInstall: const params = this.getOAuthParams(req)
GetOAuthParams ==
  /\ pc = "Start"
  /\ LET r == getOAuthParams(request)
     IN IF r.threw
        THEN Catch(r.err) /\ UNCHANGED params
        ELSE /\ params' = Some(r.value)
             /\ pc' = "ParamsValidated"
             /\ UNCHANGED <<caught, logged, outcome>>
  /\ UNCHANGED <<config, controller, request, executeCalls, executeResult,
                 baseUrl, targetPath, response, thrown>>
  /\ UNCHANGED outsideController

\* performInstall: this.installApp.execute({...params, redirectUri}, {})
InvokeExecute ==
  /\ pc = "ParamsValidated"
  /\ executeCalls' = Append(executeCalls, ExecuteArgs(controller, params[1]))
  /\ pc' = "UseCaseInvoked"
  /\ UNCHANGED <<config, controller, request, params, executeResult, caught,
                 logged, outcome, baseUrl, targetPath, response, thrown>>
  /\ UNCHANGED outsideController

\* the awaited promise resolves: return { status: 'success', context }
ExecuteResolves ==
  /\ pc = "UseCaseInvoked"
  /\ executeResult' = Some([settled |-> "resolved"])
  /\ outcome' = Some([status |-> <<"success">>,
                      context |-> Some(params[1].context),
                      errorCode |-> Null])
  /\ pc' = "Success"
  /\ UNCHANGED <<config, controller, request, params, executeCalls, caught,
                 logged, baseUrl, targetPath, response, thrown>>
  /\ UNCHANGED outsideController

\* the awaited promise rejects (or execute throws): the catch block runs
ExecuteRejects ==
  /\ pc = "UseCaseInvoked"
  /\ \E err \in ThrownErrors :
       /\ executeResult' = Some([settled |-> "rejected", err |-> err])
       /\ Catch(err)
  /\ UNCHANGED <<config, controller, request, params, executeCalls, baseUrl,
                 targetPath, response, thrown>>
  /\ UNCHANGED outsideController

\* handle: return this.buildRedirectResponse(request, outcome)
BuildRedirectResponse ==
  /\ pc \in {"Success", "Failure"}
  /\ baseUrl' = Some(getBaseUrl(request))
  /\ targetPath' = Some(TargetPath(controller, outcome[1]))
  /\ LET url == RedirectURL(controller, request, outcome[1])
     IN IF url.ok
        THEN /\ response' = Some([status |-> 307, location |-> url])
             /\ pc' = "RedirectBuilt"
             /\ UNCHANGED thrown
        ELSE /\ thrown' = Some(InvalidURLError)
             /\ pc' = "Threw"
             /\ UNCHANGED response
  /\ UNCHANGED <<config, controller, request, params, executeCalls,
                 executeResult, caught, logged, outcome>>
  /\ UNCHANGED outsideController

Next ==
  \/ GetOAuthParams
  \/ InvokeExecute
  \/ ExecuteResolves
  \/ ExecuteRejects
  \/ BuildRedirectResponse

Spec == Init /\ [][Next]_vars

\* ------------------------------------------------------------------------
\* Vocabulary of the properties
\* ------------------------------------------------------------------------
ReqCode == QueryGet(request, <<"code">>)

ReqContext == QueryGet(request, <<"context">>)

ReqScope == QueryGet(request, <<"scope">>)

\* the request carries a non-empty code and a non-empty context
ValidParams == Truthy(ReqCode) /\ Truthy(ReqContext)

\* handle has ended: it returned a response or an exception escaped it
Finished == pc \in {"RedirectBuilt", "Threw"}

ExecuteResolved ==
  executeResult # Null /\ executeResult[1].settled = "resolved"

ExecuteRejected ==
  executeResult # Null /\ executeResult[1].settled = "rejected"

\* handle returned a redirect response
IsRedirect ==
  /\ thrown = Null
  /\ response # Null
  /\ response[1].status \in 300..399

\* a query parameter of the redirect's Location URL, decoded
LocationParam(name) ==
  SearchParamsGet(ParseQuery(response[1].location.search), name)

ConfiguredSuccessPath ==
  IF config.successPath = Null THEN <<"/auth/result">> ELSE config.successPath[1]

ConfiguredErrorPath ==
  IF config.errorPath = Null THEN <<"/auth/result">> ELSE config.errorPath[1]

ErrorCodes == {<<"missing_params">>, <<"token_exchange_failed">>, <<"unknown">>}

\* handle returned a redirect to the error path with status=error, code=c
IsErrorRedirect(c) ==
  /\ IsRedirect
  /\ response[1].location.pathname = ConfiguredErrorPath
  /\ LocationParam(<<"status">>) = Some(<<"error">>)
  /\ LocationParam(<<"code">>) = Some(c)

\* ------------------------------------------------------------------------
\* C1
\* ------------------------------------------------------------------------
\* C1: for a request with a non-empty code and a non-empty context, execute
\* is invoked exactly once by the time the use case has been reached (never
\* more than once), with the request's code and context, with the request's
\* scope or the empty string when scope is omitted, and with the redirectUri
\* of the configuration.
C1_ExecuteOnceWithRequestParams ==
  ValidParams =>
    /\ Len(executeCalls) <= 1
    /\ (pc \notin {"Start", "ParamsValidated"} => Len(executeCalls) = 1)
    /\ \A i \in 1..Len(executeCalls) :
         executeCalls[i] =
           [code |-> ReqCode[1],
            context |-> ReqContext[1],
            scope |-> IF ReqScope = Null THEN <<>> ELSE ReqScope[1],
            redirectUri |-> config.redirectUri]

C1_Witness ==
  /\ ValidParams
  /\ ReqScope = Null
  /\ Finished
  /\ Len(executeCalls) = 1
  /\ executeCalls[1].scope = <<>>

\* ------------------------------------------------------------------------
\* C2
\* ------------------------------------------------------------------------
\* C2: for a request whose code or context is absent or empty, execute is
\* never invoked, and once handle has ended the response is a redirect to
\* the error path with status=error, code=missing_params and no context.
C2_MissingParamsRedirect ==
  ~ValidParams =>
    /\ executeCalls = <<>>
    /\ (Finished =>
          /\ IsErrorRedirect(<<"missing_params">>)
          /\ LocationParam(<<"context">>) = Null)

\* ------------------------------------------------------------------------
\* C3
\* ------------------------------------------------------------------------
\* C3: for a request with valid parameters whose execute resolved, once
\* handle has ended the response is a redirect to the success path with
\* status=success, a context that decodes to the request's context, and no
\* code parameter.
C3_SuccessRedirect ==
  (ValidParams /\ ExecuteResolved /\ Finished) =>
    /\ IsRedirect
    /\ response[1].location.pathname = ConfiguredSuccessPath
    /\ LocationParam(<<"status">>) = Some(<<"success">>)
    /\ LocationParam(<<"context">>) = ReqContext
    /\ LocationParam(<<"code">>) = Null

\* ------------------------------------------------------------------------
\* C4
\* ------------------------------------------------------------------------
\* C4: for a request with valid parameters whose execute threw a
\* BigCommerceTokenExchangeError, once handle has ended the response is a
\* redirect to the error path with status=error, code=token_exchange_failed.
C4_TokenExchangeRedirect ==
  (/\ ValidParams
   /\ ExecuteRejected
   /\ executeResult[1].err.class = "BigCommerceTokenExchangeError"
   /\ Finished) =>
    IsErrorRedirect(<<"token_exchange_failed">>)

\* ------------------------------------------------------------------------
\* C5
\* ------------------------------------------------------------------------
\* C5: for a request with valid parameters whose execute threw an error that
\* is not a BigCommerceTokenExchangeError, once handle has ended the response
\* is a redirect to the error path with status=error, code=unknown.
C5_OtherErrorRedirect ==
  (/\ ValidParams
   /\ ExecuteRejected
   /\ executeResult[1].err.class # "BigCommerceTokenExchangeError"
   /\ Finished) =>
    IsErrorRedirect(<<"unknown">>)

\* ------------------------------------------------------------------------
\* C6
\* ------------------------------------------------------------------------
\* C6: every redirect that handle returns carries status success or error,
\* a context parameter exactly when status is success, a code parameter
\* exactly when status is error, and on error the code is one of
\* missing_params, token_exchange_failed, unknown.
C6_RedirectShape ==
  response # Null =>
    LET status == LocationParam(<<"status">>)
        context == LocationParam(<<"context">>)
        code == LocationParam(<<"code">>)
    IN /\ status \in {Some(<<"success">>), Some(<<"error">>)}
       /\ (context # Null) <=> (status = Some(<<"success">>))
       /\ (code # Null) <=> (status = Some(<<"error">>))
       /\ (status = Some(<<"error">>) => code[1] \in ErrorCodes)

C6_Witness ==
  /\ response # Null
  /\ caught = Some(MissingOAuthParamsError)
  /\ LocationParam(<<"code">>) = Some(<<"missing_params">>)
  /\ LocationParam(<<"context">>) = Null

\* ------------------------------------------------------------------------
\* C7
\* ------------------------------------------------------------------------
\* C7: whatever the query string, the headers and the outcome of execute,
\* no exception escapes handle, and when handle has ended it has returned a
\* redirect response.
C7_AlwaysRedirects ==
  /\ thrown = Null
  /\ (Finished => IsRedirect)

\* ------------------------------------------------------------------------
\* C8
\* ------------------------------------------------------------------------
HeaderPresent(name) == request.headers[name] # Null

ExpectedHost ==
  IF HeaderPresent("x-forwarded-host") THEN request.headers["x-forwarded-host"][1]
  ELSE IF HeaderPresent("host") THEN request.headers["host"][1]
  ELSE <<"localhost:3000">>

ExpectedProtocol ==
  IF HeaderPresent("x-forwarded-proto") THEN request.headers["x-forwarded-proto"][1]
  ELSE <<"http">>

\* C8: the base URL of the redirect is <protocol>://<host>, host being the
\* x-forwarded-host header when present, else the host header when present,
\* else localhost:3000, and protocol the x-forwarded-proto header when
\* present, else http; without any of the headers it is
\* http://localhost:3000; a returned redirect has that base as its origin.
C8_BaseUrlPrecedence ==
  /\ baseUrl # Null =>
       /\ baseUrl[1] = ExpectedProtocol \o <<"://">> \o ExpectedHost
       /\ (\A h \in HeaderNames : ~HeaderPresent(h)) =>
            baseUrl[1] = <<"http", "://", "localhost:3000">>
  /\ response # Null =>
       response[1].location.origin = ExpectedProtocol \o <<"://">> \o ExpectedHost

C8_Witness ==
  /\ response # Null
  /\ HeaderPresent("x-forwarded-host")
  /\ HeaderPresent("x-forwarded-proto")
  /\ HeaderPresent("host")
  /\ response[1].location.origin = <<"https", "://", "public.example.com">>

\* ------------------------------------------------------------------------
\* C9
\* ------------------------------------------------------------------------
\* C9: the path of the redirect is the configured successPath when the
\* outcome is success and the configured errorPath when it is error, each
\* of the two being /auth/result when the configuration omits it, whatever
\* the other one is.
C9_RedirectPath ==
  /\ targetPath # Null =>
       targetPath[1] = IF outcome[1].status = <<"success">>
                       THEN ConfiguredSuccessPath ELSE ConfiguredErrorPath
  /\ response # Null =>
       response[1].location.pathname = targetPath[1]

C9_Witness ==
  /\ response # Null
  /\ config.successPath # Null
  /\ config.errorPath = Null
  /\ outcome[1].status = <<"error">>
  /\ response[1].location.pathname = <<"/auth/result">>

\* ------------------------------------------------------------------------
\* C10
\* ------------------------------------------------------------------------
\* the transitions Start -> ParamsValidated -> UseCaseInvoked ->
\* {Success | Failure} -> RedirectBuilt, a failure going to Failure
StateMachineStep ==
  \/ pc = "Start" /\ pc' \in {"ParamsValidated", "Failure"}
  \/ pc = "ParamsValidated" /\ pc' = "UseCaseInvoked"
  \/ pc = "UseCaseInvoked" /\ pc' \in {"Success", "Failure"}
  \/ pc \in {"Success", "Failure"} /\ pc' = "RedirectBuilt"

\* C10: a request moves only along Start -> ParamsValidated ->
\* UseCaseInvoked -> {Success | Failure} -> RedirectBuilt; execute is
\* invoked only after the parameters were validated and at most once; and
\* the request ends in RedirectBuilt with exactly one redirect built.
C10_StateMachine ==
  /\ [][StateMachineStep]_vars
  /\ [](Len(executeCalls) <= 1)
  /\ [](executeCalls # <<>> => params # Null)
  /\ [](Finished => (pc = "RedirectBuilt" /\ response # Null))

\* ========================================================================
\* Several requests handled by one handler of InstallController.create
\* ========================================================================
NumRequests == 2

Handlings == 1..NumRequests

ConcRequests ==
  {MakeRequest(Some(<<"abc123">>), Some(<<"s">>), Null, Null, Null, Null),
   MakeRequest(Some(<<"abc123">>), Some(<<"/">>), Some(<<"store_v2_products">>),
               Some(<<>>), Null, Some(<<"https">>)),
   MakeRequest(Null, Some(<<"s">>), Null, Null, Some(<<"shop.example.com">>), Null)}

ConcConfigs == {c \in Configs : (c.successPath = Null) <=> (c.errorPath = Null)}

\* the locals of one invocation of handle
NewHandling(req) ==
  [request |-> req, pc |-> "Start", params |-> Null, executeResult |-> Null,
   outcome |-> Null, response |-> Null, thrown |-> Null]

\* variant: params is kept in one place shared by all invocations, where the
\* invocation that validated last (the highest one here) has overwritten it
ParamsOf_Shared(fl, i) ==
  LET S == {j \in DOMAIN fl : fl[j].params # Null}
  IN fl[CHOOSE j \in S : \A k \in S : k <= j].params[1]

\* const params of invocation i: a local of performInstall
ParamsOf(fl, i) == fl[i].params[1]

InitConc ==
  /\ config \in ConcConfigs
  /\ controller = Construct(config)
  /\ executeCalls = <<>>
  /\ logged = <<>>
  /\ inflight \in [Handlings -> {NewHandling(r) : r \in ConcRequests}]
  /\ request = Null
  /\ pc = "unused"
  /\ params = Null
  /\ executeResult = Null
  /\ caught = Null
  /\ outcome = Null
  /\ baseUrl = Null
  /\ targetPath = Null
  /\ response = Null
  /\ thrown = Null
  /\ cli = Unused
  /\ fs = Unused
  /\ copy = Unused
  /\ view = Unused

\* what the handling of concurrent requests leaves alone besides inflight,
\* executeCalls and logged
concFrame ==
  <<config, controller, request, pc, params, executeResult, caught, outcome,
    baseUrl, targetPath, response, thrown, cli, fs, copy, view>>

ErrorOutcome(err) ==
  [status |-> <<"error">>, context |-> Null,
   errorCode |-> Some(mapErrorToCode(err))]

\* invocation i: const params = this.getOAuthParams(req), or the catch block
GetOAuthParamsOf(i) ==
  /\ inflight[i].pc = "Start"
  /\ LET r == getOAuthParams(inflight[i].request)
     IN IF r.threw
        THEN /\ inflight' = [inflight EXCEPT ![i].outcome = Some(ErrorOutcome(r.err)),
                                             ![i].pc = "Failure"]
             /\ logged' = Append(logged, r.err)
        ELSE /\ inflight' = [inflight EXCEPT ![i].params = Some(r.value),
                                             ![i].pc = "ParamsValidated"]
             /\ UNCHANGED logged
  /\ UNCHANGED executeCalls
  /\ UNCHANGED concFrame

\* invocation i: this.installApp.execute({...params, redirectUri}, {})
InvokeExecuteOf(i) ==
  /\ inflight[i].pc = "ParamsValidated"
  /\ executeCalls' = Append(executeCalls, ExecuteArgs(controller, ParamsOf(inflight, i)))
  /\ inflight' = [inflight EXCEPT ![i].pc = "UseCaseInvoked"]
  /\ UNCHANGED logged
  /\ UNCHANGED concFrame

\* invocation i: its awaited promise resolves
ExecuteResolvesOf(i) ==
  /\ inflight[i].pc = "UseCaseInvoked"
  /\ inflight' = [inflight EXCEPT
       ![i].executeResult = Some([settled |-> "resolved"]),
       ![i].outcome = Some([status |-> <<"success">>,
                            context |-> Some(ParamsOf(inflight, i).context),
                            errorCode |-> Null]),
       ![i].pc = "Success"]
  /\ UNCHANGED <<executeCalls, logged>>
  /\ UNCHANGED concFrame

\* invocation i: its awaited promise rejects, the catch block runs
ExecuteRejectsOf(i) ==
  /\ inflight[i].pc = "UseCaseInvoked"
  /\ \E err \in ThrownErrors :
       /\ inflight' = [inflight EXCEPT
            ![i].executeResult = Some([settled |-> "rejected", err |-> err]),
            ![i].outcome = Some(ErrorOutcome(err)),
            ![i].pc = "Failure"]
       /\ logged' = Append(logged, err)
  /\ UNCHANGED executeCalls
  /\ UNCHANGED concFrame

\* invocation i: return this.buildRedirectResponse(request, outcome)
BuildRedirectResponseOf(i) ==
  /\ inflight[i].pc \in {"Success", "Failure"}
  /\ LET url == RedirectURL(controller, inflight[i].request, inflight[i].outcome[1])
     IN IF url.ok
        THEN inflight' = [inflight EXCEPT
               ![i].response = Some([status |-> 307, location |-> url]),
               ![i].pc = "RedirectBuilt"]
        ELSE inflight' = [inflight EXCEPT
               ![i].thrown = Some(InvalidURLError),
               ![i].pc = "Threw"]
  /\ UNCHANGED <<executeCalls, logged>>
  /\ UNCHANGED concFrame

NextConc ==
  \E i \in Handlings :
    \/ GetOAuthParamsOf(i)
    \/ InvokeExecuteOf(i)
    \/ ExecuteResolvesOf(i)
    \/ ExecuteRejectsOf(i)
    \/ BuildRedirectResponseOf(i)

SpecConc == InitConc /\ [][NextConc]_vars

\* ------------------------------------------------------------------------
\* C11
\* ------------------------------------------------------------------------
HandlingFinished(i) == inflight[i].pc \in {"RedirectBuilt", "Threw"}

\* the outcome that a request and the settlement of its own execute call give
OwnOutcome(req, res) ==
  LET code == QueryGet(req, <<"code">>)
      context == QueryGet(req, <<"context">>)
  IN IF ~(Truthy(code) /\ Truthy(context))
     THEN [status |-> <<"error">>, context |-> Null,
           errorCode |-> Some(<<"missing_params">>)]
     ELSE IF res[1].settled = "resolved"
     THEN [status |-> <<"success">>, context |-> context, errorCode |-> Null]
     ELSE ErrorOutcome(res[1].err)

\* the result of handle for a request handled alone
OwnResult(req, res) ==
  LET url == RedirectURL(Construct(config), req, OwnOutcome(req, res))
  IN IF url.ok
     THEN [response |-> Some([status |-> 307, location |-> url]), thrown |-> Null]
     ELSE [response |-> Null, thrown |-> Some(InvalidURLError)]

\* C11: whatever the interleaving of the requests handled by one handler,
\* the result of each finished request is the one that its own URL, headers
\* and execute outcome give, and the fields of the controller never change.
C11_RequestsIndependent ==
  /\ [](\A i \in Handlings :
          HandlingFinished(i) =>
            /\ inflight[i].response
                 = OwnResult(inflight[i].request, inflight[i].executeResult).response
            /\ inflight[i].thrown
                 = OwnResult(inflight[i].request, inflight[i].executeResult).thrown)
  /\ [][controller' = controller]_vars

\* a request resolved while another one, with another context, was between
\* its validation and its own settlement
C11_Witness ==
  \E i, j \in Handlings :
    /\ i < j
    /\ inflight[i].pc = "RedirectBuilt"
    /\ inflight[i].executeResult = Some([settled |-> "resolved"])
    /\ inflight[j].pc = "UseCaseInvoked"
    /\ inflight[j].params # Null
    /\ inflight[j].params[1].context # inflight[i].params[1].context

\* ------------------------------------------------------------------------
\* C12
\* ------------------------------------------------------------------------
SameErrorClass(i, j) ==
  /\ inflight[i].executeResult # Null
  /\ inflight[j].executeResult # Null
  /\ inflight[i].executeResult[1].settled = "rejected"
  /\ inflight[j].executeResult[1].settled = "rejected"
  /\ inflight[i].executeResult[1].err.class = inflight[j].executeResult[1].err.class

\* C12: two handlings of the same request whose execute calls threw errors
\* of the same class end with identical results, whatever the messages of
\* the two errors.
C12_NoErrorDetailInResponse ==
  \A i, j \in Handlings :
    (/\ HandlingFinished(i)
     /\ HandlingFinished(j)
     /\ inflight[i].request = inflight[j].request
     /\ SameErrorClass(i, j)) =>
      /\ inflight[i].response = inflight[j].response
      /\ inflight[i].thrown = inflight[j].thrown

C12_Witness ==
  \E i, j \in Handlings :
    /\ inflight[i].request = inflight[j].request
    /\ SameErrorClass(i, j)
    /\ inflight[i].executeResult[1].err.message
         # inflight[j].executeResult[1].err.message
    /\ inflight[i].response # Null
    /\ inflight[j].response # Null

\* ========================================================================
\* copyDirectory (cli/utils/fileCopy.ts) on a model of the file system
\* ========================================================================
MaxDepth == 1

\* names of directory entries
Names == {"a", "b"}

\* the orders in which readdirSync may list them
Orders == {<<"a", "b">>, <<"b", "a">>}

\* what a path holds: nothing, a file with its contents, or a directory
NoNode == [kind |-> "none", content |-> "", entries |-> <<>>]

File(c) == [kind |-> "file", content |-> c, entries |-> <<>>]

Dir(e) == [kind |-> "dir", content |-> "", entries |-> e]

EmptyDir == Dir([n \in Names |-> NoNode])

RECURSIVE Nodes(_)
\* source nodes of at most the given depth below them
Nodes(depth) ==
  IF depth = 0 THEN {NoNode, File("new")}
  ELSE {NoNode, File("new")} \cup {Dir(e) : e \in [Names -> Nodes(depth - 1)]}

SrcTrees == {Dir(e) : e \in [Names -> Nodes(MaxDepth)]}

RECURSIVE Stale(_)
\* an earlier copy of a node: same shape, old contents
Stale(s) ==
  IF s.kind = "file" THEN File("old")
  ELSE IF s.kind = "dir" THEN Dir([n \in Names |-> Stale(s.entries[n])])
  ELSE NoNode

\* a node of the other type at the same path
Conflict(s) ==
  IF s.kind = "file" THEN EmptyDir
  ELSE IF s.kind = "dir" THEN File("old")
  ELSE NoNode

\* a directory whose entries are of the other type
DeepConflict(s) ==
  IF s.kind = "dir" THEN Dir([n \in Names |-> Conflict(s.entries[n])])
  ELSE File("old")

\* what the destination may hold where the source holds s
EntryVariants(s) == {NoNode, File("old"), Stale(s), Conflict(s), DeepConflict(s)}

DestTrees(s) ==
  {NoNode, File("old")}
    \cup {Dir(e) : e \in {f \in [Names -> UNION {EntryVariants(s.entries[n]) : n \in Names}] :
                            \A n \in Names : f[n] \in EntryVariants(s.entries[n])}}

\* variant: mkdirSync is never called
Mkdir_Skipped(d) == d

\* if (!fs.existsSync(dest)) fs.mkdirSync(dest, { recursive: true })
Mkdir(d) == IF d.kind = "none" THEN EmptyDir ELSE d

\* variant: copyFileSync with COPYFILE_EXCL semantics that keeps an existing file
CopyFileSync_KeepExisting(e, target) ==
  IF target.kind = "dir" THEN [node |-> target, err |-> Some("EISDIR")]
  ELSE IF target.kind = "file" THEN [node |-> target, err |-> Null]
  ELSE [node |-> e, err |-> Null]

\* fs.copyFileSync(srcPath, destPath): overwrites a file, fails on a directory
CopyFileSync(e, target) ==
  IF target.kind = "dir" THEN [node |-> target, err |-> Some("EISDIR")]
  ELSE [node |-> e, err |-> Null]

RECURSIVE CopyDirectory(_, _, _)
RECURSIVE CopyEntries(_, _, _, _)
\* the for loop of copyDirectory from the k-th entry of the listing on;
\* s is the source directory, d what dest holds
CopyEntries(s, d, order, k) ==
  IF k > Len(order) THEN [node |-> d, err |-> Null]
  ELSE
    LET n == order[k]
        e == s.entries[n]
    IN IF e.kind = "none" THEN CopyEntries(s, d, order, k + 1)
       ELSE IF d.kind = "file" THEN [node |-> d, err |-> Some("ENOTDIR")]
       ELSE IF d.kind = "none" THEN [node |-> d, err |-> Some("ENOENT")]
       ELSE
         LET r == IF e.kind = "dir"
                  THEN CopyDirectory(e, d.entries[n], order)
                  ELSE CopyFileSync(e, d.entries[n])
             d2 == [d EXCEPT !.entries[n] = r.node]
         IN IF r.err # Null THEN [node |-> d2, err |-> r.err]
            ELSE CopyEntries(s, d2, order, k + 1)

\* copyDirectory(src, dest): the node at dest afterwards and the error thrown
CopyDirectory(s, d, order) ==
  LET d1 == Mkdir(d)
  IN IF s.kind = "none" THEN [node |-> d1, err |-> Some("ENOENT")]
     ELSE IF s.kind = "file" THEN [node |-> d1, err |-> Some("ENOTDIR")]
     ELSE CopyEntries(s, d1, order, 1)

InitCopy ==
  /\ \E s \in SrcTrees : \E d \in DestTrees(s) :
       fs = [src |-> s, dest |-> d]
  /\ \E o \in Orders :
       copy = [pc |-> "Start", order |-> o, before |-> <<>>, err |-> <<>>]
  /\ config = Null
  /\ controller = Null
  /\ request = Null
  /\ pc = "unused"
  /\ params = Null
  /\ executeCalls = <<>>
  /\ executeResult = Null
  /\ caught = Null
  /\ logged = <<>>
  /\ outcome = Null
  /\ baseUrl = Null
  /\ targetPath = Null
  /\ response = Null
  /\ thrown = Null
  /\ inflight = <<>>
  /\ cli = Unused
  /\ view = Unused

copyFrame ==
  <<config, controller, request, pc, params, executeCalls, executeResult,
    caught, logged, outcome, baseUrl, targetPath, response, thrown, inflight,
    cli, view>>

\* one call copyDirectory(src, dest); before keeps what dest held at each call
\* and err what each call threw
CallCopyDirectory(to) ==
  LET r == CopyDirectory(fs.src, fs.dest, copy.order)
  IN /\ fs' = [fs EXCEPT !.dest = r.node]
     /\ copy' = [copy EXCEPT !.pc = to,
                             !.before = Append(@, fs.dest),
                             !.err = Append(@, r.err)]

FirstCopy ==
  /\ copy.pc = "Start"
  /\ CallCopyDirectory("Copied")
  /\ UNCHANGED copyFrame

\* the same call repeated on what the first one left
SecondCopy ==
  /\ copy.pc = "Copied"
  /\ CallCopyDirectory("CopiedAgain")
  /\ UNCHANGED copyFrame

NextCopy == FirstCopy \/ SecondCopy

SpecCopy == InitCopy /\ [][NextCopy]_vars

\* ------------------------------------------------------------------------
\* C16
\* ------------------------------------------------------------------------
RECURSIVE Reproduces(_, _)
\* d is a directory that holds every file of s, at any depth, at the same
\* relative path with the same contents, and every directory on the way
Reproduces(s, d) ==
  /\ d.kind = "dir"
  /\ \A n \in Names :
       /\ s.entries[n].kind = "file" => d.entries[n] = s.entries[n]
       /\ s.entries[n].kind = "dir" => Reproduces(s.entries[n], d.entries[n])

CopiedOnce == copy.pc \in {"Copied", "CopiedAgain"}

RECURSIVE HasNestedFile(_, _)
HasNestedFile(s, depth) ==
  /\ s.kind = "dir"
  /\ \E n \in Names :
       IF depth = 0 THEN s.entries[n].kind = "file"
       ELSE HasNestedFile(s.entries[n], depth - 1)

RECURSIVE Overwritten(_, _, _)
\* every file that b held at the relative path of a file of s is, in d, that
\* file of s
Overwritten(s, b, d) ==
  \A n \in Names :
    /\ (s.entries[n].kind = "file" /\ b.entries[n].kind = "file") =>
         (d.kind = "dir" /\ d.entries[n] = s.entries[n])
    /\ (s.entries[n].kind = "dir" /\ b.entries[n].kind = "dir") =>
         (d.kind = "dir" /\ Overwritten(s.entries[n], b.entries[n], d.entries[n]))

\* what dest held when the first call was over
AfterFirstCopy == IF copy.pc = "Copied" THEN fs.dest ELSE copy.before[2]

DestWasDir == copy.before[1].kind = "dir"

SecondCopyChangedNothing ==
  copy.pc = "CopiedAgain" => (fs.dest = copy.before[2] /\ copy.err[2] = copy.err[1])

Cwd == <<"home", "project">>

\* __dirname of cli/commands/init.ts
ModuleDir == <<"pkg", "src", "cli", "commands">>

\* the template directory that the package ships
BundledTemplates == <<"pkg", "templates", "ts">>

\* variant: one level short
TemplateRel_TwoUp == <<"..", "/", "..", "/", "templates", "/", "ts">>

\* '../../../templates/ts'
TemplateRel == <<"..", "/", "..", "/", "..", "/", "templates", "/", "ts">>

IsAbsolute(p) == Len(p) > 0 /\ p[1] = "/"

RECURSIVE Normalize(_, _)
\* walks the atoms of p from the resolved path acc: "." and empty segments
\* are dropped, ".." removes the last name
Normalize(acc, p) ==
  IF p = <<>> THEN acc
  ELSE LET a == Head(p)
       IN IF a \in {"/", "."} THEN Normalize(acc, Tail(p))
          ELSE IF a = ".."
          THEN Normalize(IF acc = <<>> THEN acc ELSE SubSeq(acc, 1, Len(acc) - 1), Tail(p))
          ELSE Normalize(Append(acc, a), Tail(p))

\* path.resolve(base, p) for an optional string p: undefined is a TypeError,
\* an absolute p replaces base, "" leaves base
Resolve(base, p) ==
  IF p = Null THEN [ok |-> FALSE, path |-> <<>>]
  ELSE [ok |-> TRUE,
        path |-> Normalize(IF IsAbsolute(p[1]) THEN <<>> ELSE base, p[1])]

RECURSIVE PathString(_)
\* a resolved path as it is printed
PathString(path) ==
  IF path = <<>> THEN <<>> ELSE <<"/", Head(path)>> \o PathString(Tail(path))

\* values of the first argument of init
TargetArgs ==
  {<<>>, <<"src", "/", "app">>, <<"/", "tmp", "/", "out">>,
   <<"..", "/", "other">>, <<".">>}

\* process.argv without the node binary and the script
Argvs ==
  {<<>>}
    \cup {<<c>> : c \in {<<"init">>, <<"help">>, <<>>}}
    \cup {<<c, t>> : c \in {<<"init">>, <<"help">>}, t \in TargetArgs}
    \cup {<<<<"init">>, t, <<"--force">>>> : t \in TargetArgs}

\* const [, , command, ...rest] = process.argv
Command(argv) == IF Len(argv) >= 1 THEN Some(argv[1]) ELSE Null

\* variant: every argument is forwarded
Rest_WithCommand(argv) == argv

Rest(argv) == IF Len(argv) >= 1 THEN Tail(argv) ELSE <<>>

\* a template literal applied to an optional string
Interpolate(x) == IF x = Null THEN <<"undefined">> ELSE x[1]

UsageLine == <<"Usage: bigcommerce-oauth-next init <path>">>

Event(by, op, arg) == [by |-> by, op |-> op, arg |-> arg]

\* the default branch of main
UnknownCommandEvents(command) ==
  <<Event("main", "console.error", <<"Unknown command: ">> \o Interpolate(command)),
    Event("main", "console.error", UsageLine),
    Event("main", "process.exit", <<"1">>)>>

\* the if (!targetPath) block of initCommand
MissingTargetEvents ==
  <<Event("initCommand", "console.error", <<"Missing target path.">>),
    Event("initCommand", "console.error", UsageLine),
    Event("initCommand", "process.exit", <<"1">>)>>

ScaffoldingEvent(dest) ==
  Event("initCommand", "console.log",
        <<"Scaffolding BigCommerce OAuth Next files to:\n  ">> \o PathString(dest))

DoneEvent == Event("initCommand", "console.log", <<"Done!">>)

\* variant: initCommand catches the failure of the copy, reports it and exits
CopyFailure_Caught(err) ==
  [pc |-> "Exited", error |-> Null,
   events |-> <<Event("initCommand", "console.error", err),
                Event("initCommand", "process.exit", <<"1">>)>>]

\* copyDirectory throws inside initCommand: no try/catch, the promise rejects
CopyFailure(err) == [pc |-> "Rejected", error |-> err, events |-> <<>>]

\* the packaged templates and what the destination may hold
TemplateTree ==
  Dir([n \in Names |->
         IF n = "a" THEN Dir([m \in Names |-> IF m = "a" THEN File("new") ELSE NoNode])
         ELSE File("new")])

CliFileSystems ==
  {[src |-> s, dest |-> d] :
     s \in {TemplateTree, NoNode},
     d \in {NoNode, Stale(TemplateTree), File("old"),
            Dir([n \in Names |-> Conflict(TemplateTree.entries[n])])}}

InitCli ==
  /\ \E argv \in Argvs, x \in BOOLEAN, o \in Orders :
       cli = [pc |-> "Start", argv |-> argv, exitReturns |-> x, order |-> o,
              events |-> <<>>, error |-> Null, targetPath |-> Null,
              dest |-> Null, templateDir |-> Null, copyError |-> Null]
  /\ fs \in CliFileSystems
  /\ config = Null
  /\ controller = Null
  /\ request = Null
  /\ pc = "unused"
  /\ params = Null
  /\ executeCalls = <<>>
  /\ executeResult = Null
  /\ caught = Null
  /\ logged = <<>>
  /\ outcome = Null
  /\ baseUrl = Null
  /\ targetPath = Null
  /\ response = Null
  /\ thrown = Null
  /\ inflight = <<>>
  /\ copy = Unused
  /\ view = Unused

cliFrame ==
  <<config, controller, request, pc, params, executeCalls, executeResult,
    caught, logged, outcome, baseUrl, targetPath, response, thrown, inflight,
    copy, view>>

\* where control is after process.exit(1): nowhere, unless it is a stub
AfterExit(continue) == IF cli.exitReturns THEN continue ELSE "Exited"

\* main(): the switch on command
Main ==
  /\ cli.pc = "Start"
  /\ IF Command(cli.argv) = Some(<<"init">>)
     THEN cli' = [cli EXCEPT
            !.events = Append(@, Event("main", "initCommand", Rest(cli.argv))),
            !.pc = "InitCommandEntered"]
     ELSE cli' = [cli EXCEPT
            !.events = @ \o UnknownCommandEvents(Command(cli.argv)),
            !.pc = AfterExit("MainReturned")]
  /\ UNCHANGED fs
  /\ UNCHANGED cliFrame

\* initCommand: const targetPath = args[0]; if (!targetPath) { ... }
InitCommandValidate ==
  /\ cli.pc = "InitCommandEntered"
  /\ LET args == cli.events[Len(cli.events)].arg
         t == IF Len(args) >= 1 THEN Some(args[1]) ELSE Null
     IN IF ~Truthy(t)
        THEN cli' = [cli EXCEPT !.targetPath = t,
                                !.events = @ \o MissingTargetEvents,
                                !.pc = AfterExit("Validated")]
        ELSE cli' = [cli EXCEPT !.targetPath = t, !.pc = "Validated"]
  /\ UNCHANGED fs
  /\ UNCHANGED cliFrame

\* initCommand: dest, templateDir, console.log(Scaffolding ...)
InitCommandResolve ==
  /\ cli.pc = "Validated"
  /\ LET d == Resolve(Cwd, cli.targetPath)
         t == Resolve(ModuleDir, Some(TemplateRel))
     IN IF ~d.ok
        THEN cli' = [cli EXCEPT !.error = Some("ERR_INVALID_ARG_TYPE"),
                                !.pc = "Rejected"]
        ELSE cli' = [cli EXCEPT !.dest = Some(d.path),
                                !.templateDir = Some(t.path),
                                !.events = Append(@, ScaffoldingEvent(d.path)),
                                !.pc = "Resolved"]
  /\ UNCHANGED fs
  /\ UNCHANGED cliFrame

\* initCommand: copyDirectory(templateDir, dest)
InitCommandCopy ==
  /\ cli.pc = "Resolved"
  /\ LET from == IF cli.templateDir[1] = BundledTemplates THEN fs.src ELSE NoNode
         r == CopyDirectory(from, fs.dest, cli.order)
         call == Event("initCommand", "copyDirectory",
                       [src |-> cli.templateDir[1], dest |-> cli.dest[1]])
         failure == CopyFailure(r.err)
     IN /\ fs' = [fs EXCEPT !.dest = r.node]
        /\ IF r.err # Null
           THEN cli' = [cli EXCEPT !.copyError = r.err,
                                   !.error = failure.error,
                                   !.events = Append(@, call) \o failure.events,
                                   !.pc = failure.pc]
           ELSE cli' = [cli EXCEPT !.events = Append(@, call), !.pc = "Copied"]
  /\ UNCHANGED cliFrame

\* initCommand: console.log('Done!'), then main returns
InitCommandDone ==
  /\ cli.pc = "Copied"
  /\ cli' = [cli EXCEPT !.events = Append(@, DoneEvent), !.pc = "MainReturned"]
  /\ UNCHANGED fs
  /\ UNCHANGED cliFrame

NextCli ==
  \/ Main
  \/ InitCommandValidate
  \/ InitCommandResolve
  \/ InitCommandCopy
  \/ InitCommandDone

SpecCli == InitCli /\ [][NextCli]_vars

\* ------------------------------------------------------------------------
\* Vocabulary of the command-line properties
\* ------------------------------------------------------------------------
CliDone == cli.pc \in {"Exited", "Rejected", "MainReturned"}

EventsBy(by) == SelectSeq(cli.events, LAMBDA e : e.by = by)

EventsOf(op) == SelectSeq(cli.events, LAMBDA e : e.op = op)

IsInit == Len(cli.argv) >= 1 /\ cli.argv[1] = <<"init">>

\* the arguments after the command
Remaining == SubSeq(cli.argv, 2, Len(cli.argv))

\* init is followed by a non-empty path
TargetGiven == Len(cli.argv) >= 2 /\ cli.argv[2] # <<>>

InitCommandCalledOnce ==
  /\ Len(EventsOf("initCommand")) = 1
  /\ cli.events[1] = Event("main", "initCommand", Remaining)

UnknownCommandReported ==
  /\ EventsOf("initCommand") = <<>>
  /\ Len(cli.events) = 3
  /\ cli.events[1].op = "console.error"
  /\ cli.events[1].arg
       = <<"Unknown command: ">>
           \o (IF cli.argv = <<>> THEN <<"undefined">> ELSE cli.argv[1])
  /\ cli.events[2] = Event("main", "console.error", UsageLine)
  /\ cli.events[3] = Event("main", "process.exit", <<"1">>)

\* ------------------------------------------------------------------------
\* C13
\* ------------------------------------------------------------------------
\* the statement with nothing printed and no exit by anyone when the
\* command is init
C13_InitNeverPrintsOrExits ==
  cli.pc # "Start" =>
    IF IsInit
    THEN /\ InitCommandCalledOnce
         /\ EventsOf("console.error") = <<>>
         /\ EventsOf("process.exit") = <<>>
    ELSE UnknownCommandReported

\* C13: when the first argument is init, main calls initCommand exactly once
\* with the remaining arguments and main itself prints no error and calls no
\* process.exit: errors and exits then come from initCommand only, and only
\* when no non-empty path follows init. For any other first argument, or
\* none, initCommand is never called and main prints Unknown command:
\* <command>, then the usage line, then calls process.exit(1), once.
C13_MainDispatch ==
  cli.pc # "Start" =>
    IF IsInit
    THEN /\ InitCommandCalledOnce
         /\ Len(EventsBy("main")) = 1
         /\ (EventsOf("console.error") # <<>> \/ EventsOf("process.exit") # <<>>)
              => ~TargetGiven
    ELSE UnknownCommandReported

\* init with a path and one more argument has run to its end
C13_Witness ==
  /\ cli.pc = "MainReturned"
  /\ IsInit
  /\ Len(cli.argv) = 3
  /\ cli.events[1].arg = <<cli.argv[2], cli.argv[3]>>
  /\ cli.events[Len(cli.events)] = DoneEvent

\* ------------------------------------------------------------------------
\* C14
\* ------------------------------------------------------------------------
InitCommandValidated ==
  IsInit /\ cli.pc \notin {"Start", "InitCommandEntered"}

\* C14: once initCommand, called without a target path, is past its check,
\* it has printed Missing target path. and the usage line and called
\* process.exit(1), in this order; it calls process.exit once and never
\* calls copyDirectory, whether process.exit returns or not.
C14_NoCopyWithoutTarget ==
  (InitCommandValidated /\ ~TargetGiven) =>
    /\ Len(EventsBy("initCommand")) >= 3
    /\ SubSeq(EventsBy("initCommand"), 1, 3) = MissingTargetEvents
    /\ Len(EventsOf("process.exit")) = 1
    /\ EventsOf("copyDirectory") = <<>>

\* ------------------------------------------------------------------------
\* C15
\* ------------------------------------------------------------------------
\* the destination that the run has to use
ExpectedDest == Resolve(Cwd, Some(cli.argv[2])).path

ScaffoldingThenCopy ==
  LET ev == EventsBy("initCommand")
  IN /\ Len(ev) >= 2
     /\ ev[1] = ScaffoldingEvent(ExpectedDest)
     /\ ev[2].op = "copyDirectory"
     /\ ev[2].arg = [src |-> BundledTemplates, dest |-> ExpectedDest]
     /\ Len(EventsOf("copyDirectory")) = 1
     /\ EventsOf("process.exit") = <<>>
     /\ EventsOf("console.error") = <<>>

DoneLoggedLast ==
  LET ev == EventsBy("initCommand")
  IN Len(ev) = 3 /\ ev[3] = DoneEvent

C20_CopyFailurePropagates ==
  cli.copyError # Null =>
    /\ cli.pc = "Rejected"
    /\ cli.error = cli.copyError
    /\ cli.events[Len(cli.events)].op = "copyDirectory"
    /\ Len(SelectSeq(cli.events, LAMBDA e : e = DoneEvent)) = 0

C20_Witness ==
  /\ cli.pc = "Rejected"
  /\ cli.copyError = Some("EISDIR")
  /\ cli.error = Some("EISDIR")
  /\ TargetGiven

\* ------------------------------------------------------------------------
\* C18
\* ------------------------------------------------------------------------
\* C18: a finished request that lacked code or context, for which
\* getOAuthParams threw MissingOAuthParamsError, has got a response with
\* status 400.
C18_MissingParamsIs400 ==
  (Finished /\ ~ValidParams /\ caught = Some(MissingOAuthParamsError)) =>
    (response # Null /\ response[1].status = 400)

\* ========================================================================
\* The result page: AuthResultPage (page.tsx) and the AuthResult presenter
\* ========================================================================
StatusValues ==
  {Null, Some(<<"success">>), Some(<<"error">>), Some(<<>>),
   Some(<<"Success">>), Some(<<"failed">>)}

CodeParamValues ==
  {Null, Some(<<>>), Some(<<"missing_params">>), Some(<<"token_exchange_failed">>),
   Some(<<"unknown_error">>), Some(<<"0">>)}

ContextParamValues == {Null, Some(<<>>), Some(<<"stores/abc123">>)}

SearchParamsValues ==
  [status : StatusValues, code : CodeParamValues, context : ContextParamValues]

\* variant: the error code line is part of both views
AuthResult_CodeInBothViews(props) ==
  LET status == Coalesce(props.status, <<"success">>)
      isSuccess == status = <<"success">>
  IN [shown |-> IF isSuccess THEN "success" ELSE "failure",
      codeLine |-> IF Truthy(props.code) THEN props.code ELSE Null]

\* AuthResult({ status = 'success', code }): the view that is rendered and
\* the error code line, if it is
AuthResult(props) ==
  LET status == Coalesce(props.status, <<"success">>)
      isSuccess == status = <<"success">>
  IN [shown |-> IF isSuccess THEN "success" ELSE "failure",
      codeLine |-> IF ~isSuccess /\ Truthy(props.code) THEN props.code ELSE Null]

InitView ==
  /\ \E sp \in SearchParamsValues :
       view = [pc |-> "Start", searchParams |-> sp, props |-> Null, rendered |-> Null]
  /\ config = Null
  /\ controller = Null
  /\ request = Null
  /\ pc = "unused"
  /\ params = Null
  /\ executeCalls = <<>>
  /\ executeResult = Null
  /\ caught = Null
  /\ logged = <<>>
  /\ outcome = Null
  /\ baseUrl = Null
  /\ targetPath = Null
  /\ response = Null
  /\ thrown = Null
  /\ inflight = <<>>
  /\ cli = Unused
  /\ fs = Unused
  /\ copy = Unused

viewFrame ==
  <<config, controller, request, pc, params, executeCalls, executeResult,
    caught, logged, outcome, baseUrl, targetPath, response, thrown, inflight,
    cli, fs, copy>>

\* AuthResultPage: await searchParams, pass status, code and context on
AuthResultPage ==
  /\ view.pc = "Start"
  /\ view' = [view EXCEPT
       !.props = Some([status |-> view.searchParams.status,
                       code |-> view.searchParams.code,
                       context |-> view.searchParams.context]),
       !.pc = "PropsPassed"]
  /\ UNCHANGED viewFrame

\* the presenter renders
RenderAuthResult ==
  /\ view.pc = "PropsPassed"
  /\ view' = [view EXCEPT !.rendered = Some(AuthResult(view.props[1])),
                          !.pc = "Rendered"]
  /\ UNCHANGED viewFrame

NextView == AuthResultPage \/ RenderAuthResult

SpecView == InitView /\ [][NextView]_vars

\* ------------------------------------------------------------------------
\* C19
\* ------------------------------------------------------------------------
StatusSuccessOrOmitted ==
  view.searchParams.status \in {Null, Some(<<"success">>)}

CodeNonEmpty == view.searchParams.code \notin {Null, Some(<<>>)}

\* C19: the presenter shows the success view exactly when status is success
\* or omitted and the failure view otherwise; the error code line is shown
\* exactly in the failure view with a non-empty code, and shows that code.
C19_ViewByStatus ==
  view.pc = "Rendered" =>
    /\ view.rendered[1].shown = (IF StatusSuccessOrOmitted THEN "success" ELSE "failure")
    /\ (view.rendered[1].codeLine # Null) <=> (~StatusSuccessOrOmitted /\ CodeNonEmpty)
    /\ view.rendered[1].codeLine # Null =>
         view.rendered[1].codeLine = view.searchParams.code

\* an error status with its code has been rendered
C19_Witness ==
  /\ view.pc = "Rendered"
  /\ view.searchParams.status = Some(<<"error">>)
  /\ view.rendered[1].shown = "failure"
  /\ view.rendered[1].codeLine = Some(<<"missing_params">>)

\* ------------------------------------------------------------------------
\* C21
\* ------------------------------------------------------------------------
\* C21: a returned redirect carries code=missing_params only for a request
\* whose code or context was absent or empty, so never for a request for
\* which execute was invoked.
C21_MissingParamsOnlyFromRequest ==
  (response # Null /\ LocationParam(<<"code">>) = Some(<<"missing_params">>)) =>
    (~ValidParams /\ executeCalls = <<>>)

\* ------------------------------------------------------------------------
\* C22
\* ------------------------------------------------------------------------
\* a header value that is absent or empty
Blank(name) == ~Truthy(request.headers[name])

NonEmptyHost ==
  IF ~Blank("x-forwarded-host") THEN request.headers["x-forwarded-host"][1]
  ELSE IF ~Blank("host") THEN request.headers["host"][1]
  ELSE <<"localhost:3000">>

NonEmptyProtocol ==
  IF ~Blank("x-forwarded-proto") THEN request.headers["x-forwarded-proto"][1]
  ELSE <<"http">>

\* C22: the base URL that getBaseUrl returns has a non-empty host and a
\* non-empty protocol: an x-forwarded-host header that is present and empty
\* gives way to the host header or to localhost:3000, an empty
\* x-forwarded-proto to http.
C22_BaseUrlHostNonEmpty ==
  baseUrl # Null =>
    baseUrl[1] = NonEmptyProtocol \o <<"://">> \o NonEmptyHost

\* ========================================================================
\* Requests with one URL and different headers, handled by one handler
\* ========================================================================
\* the query strings of the requests that are compared
ComparedQueries ==
  {<<Some(<<"abc123">>), Some(<<"s">>), Some(<<"store_v2_products">>)>>,
   <<Null, Some(<<"s">>), Null>>}

\* the headers that they come with: x-forwarded-host, host, x-forwarded-proto
ComparedHeaders ==
  {<<Null, Null, Null>>,
   <<Some(<<"public.example.com">>), Some(<<"internal:3000">>), Some(<<"https">>)>>,
   <<Some(<<>>), Some(<<"shop.example.com">>), Null>>}

RequestsWithQuery(q) ==
  {MakeRequest(q[1], q[2], q[3], h[1], h[2], h[3]) : h \in ComparedHeaders}

InitHeaders ==
  /\ config \in ConcConfigs
  /\ controller = Construct(config)
  /\ executeCalls = <<>>
  /\ logged = <<>>
  /\ \E q \in ComparedQueries :
       inflight \in [Handlings -> {NewHandling(r) : r \in RequestsWithQuery(q)}]
  /\ request = Null
  /\ pc = "unused"
  /\ params = Null
  /\ executeResult = Null
  /\ caught = Null
  /\ outcome = Null
  /\ baseUrl = Null
  /\ targetPath = Null
  /\ response = Null
  /\ thrown = Null
  /\ cli = Unused
  /\ fs = Unused
  /\ copy = Unused
  /\ view = Unused

SpecHeaders == InitHeaders /\ [][NextConc]_vars

\* ------------------------------------------------------------------------
\* C23
\* ------------------------------------------------------------------------
SameUrlAndOutcome(i, j) ==
  /\ HandlingFinished(i)
  /\ HandlingFinished(j)
  /\ inflight[i].request.url = inflight[j].request.url
  /\ inflight[i].executeResult = inflight[j].executeResult

\* C23: two finished requests with the same URL and the same outcome of
\* execute, whatever their headers, had execute invoked with the same
\* arguments or not at all, and both got a redirect, with the same path and
\* the same query parameters.
C23_HeadersOnlyOrigin ==
  \A i, j \in Handlings :
    SameUrlAndOutcome(i, j) =>
      /\ inflight[i].params = inflight[j].params
      /\ inflight[i].response # Null
      /\ inflight[j].response # Null
      /\ inflight[i].response[1].location.pathname
           = inflight[j].response[1].location.pathname
      /\ ParseQuery(inflight[i].response[1].location.search)
           = ParseQuery(inflight[j].response[1].location.search)

\* ========================================================================
\* copyDirectory on one file system in which src and dest are two paths
\* ========================================================================
\* the longest path, in names, that the file system accepts
MaxPathLen == 3

RECURSIVE Labelled(_, _)
\* the node with every file holding its own path as contents
Labelled(node, prefix) ==
  IF node.kind = "file" THEN File(prefix)
  ELSE IF node.kind = "dir"
  THEN Dir([n \in Names |-> Labelled(node.entries[n], prefix \o "/" \o n)])
  ELSE NoNode

Roots == {Labelled(Dir(e), "") : e \in [Names -> Nodes(MaxDepth)]}

SrcPaths == {<<"a">>, <<"a", "a">>}

DestPaths == {<<n>> : n \in Names} \cup {<<n, m>> : n, m \in Names}

RECURSIVE NodeAt(_, _)
\* what the tree holds at a path; nothing below a file or a missing entry
NodeAt(tree, path) ==
  IF path = <<>> THEN tree
  ELSE IF tree.kind # "dir" THEN NoNode
  ELSE NodeAt(tree.entries[Head(path)], Tail(path))

RECURSIVE SetAt(_, _, _)
\* the tree with node at a path whose parent is a directory
SetAt(tree, path, node) ==
  IF path = <<>> THEN node
  ELSE [tree EXCEPT !.entries[Head(path)] = SetAt(@, Tail(path), node)]

RECURSIVE MkdirRecursive(_, _)
\* fs.mkdirSync(path, { recursive: true }) from the directory tree down
MkdirRecursive(tree, path) ==
  IF tree.kind = "file" THEN [node |-> tree, err |-> Some("ENOTDIR")]
  ELSE LET t == IF tree.kind = "none" THEN EmptyDir ELSE tree
       IN IF path = <<>> THEN [node |-> t, err |-> Null]
          ELSE LET r == MkdirRecursive(t.entries[Head(path)], Tail(path))
               IN [node |-> [t EXCEPT !.entries[Head(path)] = r.node], err |-> r.err]

\* the names that fs.readdirSync(path) returns, in the order of the listing
Listing(tree, path, order) ==
  SelectSeq(order, LAMBDA n : NodeAt(tree, Append(path, n)).kind # "none")

RECURSIVE CopyDirectoryAt(_, _, _, _)
RECURSIVE CopyListingAt(_, _, _, _, _, _)
\* the for loop of copyDirectory(src, dest) from the k-th name of the listing
\* that was read when the call started
CopyListingAt(tree, src, dest, order, listing, k) ==
  IF k > Len(listing) THEN [node |-> tree, err |-> Null]
  ELSE
    LET n == listing[k]
        srcPath == Append(src, n)
        destPath == Append(dest, n)
        stat == NodeAt(tree, srcPath)
    IN IF stat.kind = "none" THEN [node |-> tree, err |-> Some("ENOENT")]
       ELSE IF stat.kind = "dir"
       THEN LET r == CopyDirectoryAt(tree, srcPath, destPath, order)
            IN IF r.err # Null THEN r
               ELSE CopyListingAt(r.node, src, dest, order, listing, k + 1)
       ELSE IF Len(destPath) > MaxPathLen
       THEN [node |-> tree, err |-> Some("ENAMETOOLONG")]
       ELSE IF NodeAt(tree, dest).kind = "file"
       THEN [node |-> tree, err |-> Some("ENOTDIR")]
       ELSE IF NodeAt(tree, dest).kind = "none"
       THEN [node |-> tree, err |-> Some("ENOENT")]
       ELSE LET r == CopyFileSync(stat, NodeAt(tree, destPath))
            IN IF r.err # Null THEN [node |-> tree, err |-> r.err]
               ELSE CopyListingAt(SetAt(tree, destPath, r.node), src, dest,
                                  order, listing, k + 1)

\* copyDirectory(src, dest) on the tree: the tree afterwards and the error
CopyDirectoryAt(tree, src, dest, order) ==
  LET made == IF NodeAt(tree, dest).kind # "none" THEN [node |-> tree, err |-> Null]
              ELSE IF Len(dest) > MaxPathLen
              THEN [node |-> tree, err |-> Some("ENAMETOOLONG")]
              ELSE MkdirRecursive(tree, dest)
      from == NodeAt(made.node, src)
  IN IF made.err # Null THEN [node |-> tree, err |-> made.err]
     ELSE IF from.kind = "none" THEN [node |-> made.node, err |-> Some("ENOENT")]
     ELSE IF from.kind = "file" THEN [node |-> made.node, err |-> Some("ENOTDIR")]
     ELSE CopyListingAt(made.node, src, dest, order,
                        Listing(made.node, src, order), 1)

InitTree ==
  /\ \E r \in Roots, s \in SrcPaths, d \in DestPaths :
       fs = [root |-> r, src |-> s, dest |-> d]
  /\ \E o \in Orders :
       copy = [pc |-> "Start", order |-> o, before |-> <<>>, err |-> <<>>]
  /\ config = Null
  /\ controller = Null
  /\ request = Null
  /\ pc = "unused"
  /\ params = Null
  /\ executeCalls = <<>>
  /\ executeResult = Null
  /\ caught = Null
  /\ logged = <<>>
  /\ outcome = Null
  /\ baseUrl = Null
  /\ targetPath = Null
  /\ response = Null
  /\ thrown = Null
  /\ inflight = <<>>
  /\ cli = Unused
  /\ view = Unused

\* one call copyDirectory(src, dest)
CopyWithinTree ==
  /\ copy.pc = "Start"
  /\ LET r == CopyDirectoryAt(fs.root, fs.src, fs.dest, copy.order)
     IN /\ fs' = [fs EXCEPT !.root = r.node]
        /\ copy' = [copy EXCEPT !.pc = "Copied",
                                !.before = Append(@, fs.root),
                                !.err = Append(@, r.err)]
  /\ UNCHANGED copyFrame

NextTree == CopyWithinTree

SpecTree == InitTree /\ [][NextTree]_vars

\* ------------------------------------------------------------------------
\* C24
\* ------------------------------------------------------------------------
RelativePaths == SeqsUpTo(Names, MaxPathLen) \ {<<>>}

SourceUnmodified ==
  NodeAt(fs.root, fs.src) = NodeAt(copy.before[1], fs.src)

\* what dest held at a relative path that the source tree does not have is
\* still there
DestExtrasKept ==
  \A p \in RelativePaths :
    (/\ NodeAt(copy.before[1], fs.dest \o p).kind # "none"
     /\ NodeAt(copy.before[1], fs.src \o p).kind = "none") =>
       NodeAt(fs.root, fs.dest \o p) = NodeAt(copy.before[1], fs.dest \o p)

\* C24: after copyDirectory(src, dest) with src a directory, whether the call
\* returned or threw, the source tree is what it was, and every file and directory of dest at a
\* relative path that does not occur in the source tree is what it was.
C24_SourceAndExtrasUntouched ==
  (copy.pc = "Copied" /\ NodeAt(copy.before[1], fs.src).kind = "dir") =>
    (SourceUnmodified /\ DestExtrasKept)

====
